---- MODULE Spec2Model ----
(***************************************************************************)
(* Model of vocal_separator_app.py: the handler of the "Separate Vocals"   *)
(* button.  One handler run per browser session; the runs of different     *)
(* sessions interleave at their file-system and process steps.            *)
(*                                                                         *)
(* A path is a sequence of components below the system temp root; the      *)
(* uploaded file name "sub/song.mp3" is the component sequence             *)
(* <<"sub", "song.mp3">>.  Message texts are sequences of text pieces, an  *)
(* f-string being the concatenation of its pieces (the leading emoji of    *)
(* each message is left out of the first piece).                           *)
(***************************************************************************)
EXTENDS Integers, Sequences, FiniteSets, TLC

\* Browser sessions that may press the button.
Sessions == {1, 2}

\* The session of the single-request specification.
Solo == {1}

\* Largest number of files one engine run leaves in its output folder.
MaxOutputs == 3

\* Names tempfile.mkdtemp may draw (random suffixes).
TmpNames == {"tmp_a", "tmp_b", "tmp_c"}

\* Variant: a free-text model field that also lets through an unknown name.
ModelOptionsFreeText == {"htdemucs", "mdx_extra", "mdx_q", "my_model"}

\* Options of the model selectbox.
ModelOptions == {"htdemucs", "mdx_extra", "mdx_q"}

\* Names the browser may hand over as uploaded_file.name.
UploadNames == {<<"song.mp3">>, <<"vocals.mp3">>, <<"sub", "song.mp3">>}

ConcUploadNames == {<<"song.mp3">>, <<"sub", "song.mp3">>}

\* File names an engine run may leave in its output folder.
StemNames ==
  {"vocals.mp3", "Vocals.mp3", "no_vocals.mp3", "drums.mp3", "bass.mp3", "other.mp3"}

OutputSets == {S \in SUBSET StemNames : Cardinality(S) <= MaxOutputs}

ConcOutputSets == {{}, {"vocals.mp3", "drums.mp3", "bass.mp3"}}

\* Exit statuses of the engine process (negative: killed by a signal).
ReturnCodes == {0, 1, -9}

StderrTexts == {"", "model load failed"}

VARIABLES dirs, files, demucs_installed, session, invoked, lastAccess

vars == <<dirs, files, demucs_installed, session, invoked, lastAccess>>

----------------------------------------------------------------------------
\* Paths and the file system.

IsPrefix(p, q) == Len(p) <= Len(q) /\ SubSeq(q, 1, Len(p)) = p

Parent(p) == SubSeq(p, 1, Len(p) - 1)

\* os.path.join of a directory and a relative name.
Join(d, name) == d \o name

exists(p) == p \in DOMAIN files \/ p \in dirs

WriteFile(fs, p, data) ==
  [q \in DOMAIN fs \cup {p} |-> IF q = p THEN data ELSE fs[q]]

\* TemporaryDirectory.cleanup: shutil.rmtree of the directory.
RmDirs(ds, d) == {p \in ds : ~IsPrefix(d, p)}

\* Variant: a removal that does not descend into sub-folders.
RmFilesShallow(fs, d) == [p \in {q \in DOMAIN fs : Parent(q) # d} |-> fs[p]]

RmFiles(fs, d) == [p \in {q \in DOMAIN fs : ~IsPrefix(d, q)} |-> fs[p]]

Under(d) == {p \in dirs \cup DOMAIN files : IsPrefix(d, p)}

\* Variant: a directory name drawn without the existence test.
mkdtempAny(ds) == {<<n>> : n \in TmpNames}

\* tempfile.mkdtemp: a directory name that does not exist yet.
mkdtemp(ds) == {<<n>> : n \in TmpNames} \ ds

\* os.walk is top-down: a folder comes before its sub-folders, siblings in
\* listing order.  The folders that can be the first one holding vocals.mp3.
FirstFound(top) ==
  LET cands == {d \in dirs : IsPrefix(top, d) /\ Join(d, <<"vocals.mp3">>) \in DOMAIN files}
  IN  {d \in cands : \A a \in cands : a # d => ~IsPrefix(a, d)}

----------------------------------------------------------------------------
\* Messages and exceptions.

NoExc == [type |-> "", msg |-> ""]

Error(text) == [level |-> "error", text |-> text]

Success(text) == [level |-> "success", text |-> text]

\* Variant: the failure text without the captured stderr.
FailureMessageNoStderr(stderr) == <<"Demucs processing failed">>

FailureMessage(stderr) == <<"Demucs processing failed: ", stderr>>

SuccessMessage == <<"Separation complete!">>

NotFoundMessage == <<"Could not find output files">>

NotInstalledMessage == <<"Demucs is not installed!">>

ExceptionMessage(e) == <<"Error: ", e.msg>>

cmd(m, temp_dir, input_path) ==
  [exe |-> "demucs", two_stems |-> "vocals", n |-> m, o |-> temp_dir,
   mp3 |-> TRUE, input |-> input_path]

UploadData(r) == [by |-> "upload", r |-> r, name |-> "input"]

EngineData(r, name) == [by |-> "demucs", r |-> r, name |-> name]

\* Output folder of an engine run: <output root>/<model>/<track>.
EngineFolder(temp_dir, m) == temp_dir \o <<m, "track">>

----------------------------------------------------------------------------
Idle ==
  [pc |-> "idle", name |-> <<>>, model |-> "", temp_dir |-> <<>>,
   result |-> <<>>, separated_dir |-> <<>>, exc |-> NoExc,
   messages |-> <<>>, downloads |-> <<>>,
   created |-> <<>>, scanned |-> FALSE, spawn_failed |-> FALSE,
   engine_wrote |-> {}]

Init ==
  /\ dirs = {}
  /\ files = <<>>
  /\ demucs_installed \in BOOLEAN
  /\ session = [r \in Sessions |-> Idle]
  /\ invoked = {}
  /\ lastAccess = [by |-> 0, paths |-> {}]

Set(r, rec) == session' = [session EXCEPT ![r] = rec]

Access(r, paths) == lastAccess' = [by |-> r, paths |-> paths]

\* An exception leaves the body of the with statement.
Raise(r, type, msg) ==
  Set(r, [session[r] EXCEPT !.pc = "exit_with", !.exc = [type |-> type, msg |-> msg]])

\* The button is pressed: tempfile.TemporaryDirectory() is entered.
Click(r, name, m) ==
  /\ session[r].pc = "idle"
  /\ \E d \in mkdtemp(dirs) :
       /\ dirs' = dirs \cup {d}
       /\ Set(r, [session[r] EXCEPT !.pc = "save", !.name = name, !.model = m,
                                    !.temp_dir = d, !.created = Append(@, d)])
       /\ Access(r, {d})
  /\ UNCHANGED <<files, demucs_installed, invoked>>

\* open(input_path, "wb") and f.write.
SaveUpload(r) ==
  /\ session[r].pc = "save"
  /\ LET input_path == Join(session[r].temp_dir, session[r].name)
     IN  /\ Access(r, {input_path})
         /\ IF Parent(input_path) \notin dirs
            THEN /\ Raise(r, "FileNotFoundError", "No such file or directory")
                 /\ UNCHANGED files
            ELSE \/ /\ files' = WriteFile(files, input_path, UploadData(r))
                    /\ Set(r, [session[r] EXCEPT !.pc = "run"])
                 \/ /\ Raise(r, "OSError", "No space left on device")
                    /\ UNCHANGED files
  /\ UNCHANGED <<dirs, demucs_installed, invoked>>

\* subprocess.run starts the engine process.
RunDemucs(r) ==
  /\ session[r].pc = "run"
  /\ LET input_path == Join(session[r].temp_dir, session[r].name)
     IN  invoked' = invoked \cup {cmd(session[r].model, session[r].temp_dir, input_path)}
  /\ IF demucs_installed
     THEN Set(r, [session[r] EXCEPT !.pc = "demucs"])
     ELSE Set(r, [session[r] EXCEPT !.pc = "exit_with", !.spawn_failed = TRUE,
                    !.exc = [type |-> "FileNotFoundError", msg |-> "demucs"]])
  /\ Access(r, {})
  /\ UNCHANGED <<dirs, files, demucs_installed>>

\* The engine process reads the input, writes its output files below the
\* output root and exits; subprocess.run returns.
DemucsExit(r, outs, code, stderr) ==
  /\ session[r].pc = "demucs"
  /\ LET top == session[r].temp_dir
         folder == EngineFolder(top, session[r].model)
         written == {Join(folder, <<n>>) : n \in outs}
         made == IF outs = {} THEN {} ELSE {Parent(folder), folder}
     IN  /\ dirs' = dirs \cup made
         /\ files' = [p \in DOMAIN files \cup written |->
                        IF p \in written THEN EngineData(r, p[Len(p)]) ELSE files[p]]
         /\ Set(r, [session[r] EXCEPT !.pc = "check",
                      !.result = <<[returncode |-> code, stderr |-> stderr]>>,
                      !.engine_wrote = written])
         /\ Access(r, {Join(top, session[r].name)} \cup made \cup written)
  /\ UNCHANGED <<demucs_installed, invoked>>

\* The returncode test, the success banner and the search for the output folder.
CheckResult(r) ==
  /\ session[r].pc = "check"
  /\ LET result == session[r].result[1]
         top == session[r].temp_dir
     IN  IF result.returncode # 0
         THEN /\ Set(r, [session[r] EXCEPT !.pc = "exit_with",
                           !.messages = Append(@, Error(FailureMessage(result.stderr)))])
              /\ Access(r, {})
         ELSE /\ Access(r, Under(top))
              /\ IF FirstFound(top) = {}
                 THEN Set(r, [session[r] EXCEPT !.pc = "exit_with", !.scanned = TRUE,
                                !.messages = @ \o <<Success(SuccessMessage), Error(NotFoundMessage)>>])
                 ELSE \E d \in FirstFound(top) :
                        Set(r, [session[r] EXCEPT !.pc = "vocals", !.scanned = TRUE,
                                  !.separated_dir = <<d>>,
                                  !.messages = Append(@, Success(SuccessMessage))])
  /\ UNCHANGED <<dirs, files, demucs_installed, invoked>>

\* if <cond>: open(path, "rb"), read, st.download_button(label, data, file_name).
ShowStem(r, here, next, probes, stem, label, prefix) ==
  /\ session[r].pc = here
  /\ LET folder == session[r].separated_dir[1]
         path == Join(folder, <<stem>>)
     IN  IF \A n \in probes : exists(Join(folder, <<n>>))
         THEN \/ /\ Set(r, [session[r] EXCEPT !.pc = next,
                              !.downloads = Append(@, [label |-> label, data |-> files[path],
                                                        file_name |-> <<prefix>> \o session[r].name])])
                 /\ Access(r, {Join(folder, <<n>>) : n \in probes})
              \/ /\ Raise(r, "PermissionError", "Permission denied")
                 /\ Access(r, {Join(folder, <<n>>) : n \in probes})
         ELSE /\ Set(r, [session[r] EXCEPT !.pc = next])
              /\ Access(r, {Join(folder, <<n>>) : n \in probes})
  /\ UNCHANGED <<dirs, files, demucs_installed, invoked>>

ShowVocals(r) ==
  ShowStem(r, "vocals", "instrumental", {"vocals.mp3"}, "vocals.mp3", "Download Vocals", "vocals_")

\* Variant: the Instrumental block tested on the Drums file alone.
InstrumentalProbesDrumsOnly == {"drums.mp3"}

\* os.path.exists(drums_path) and os.path.exists(bass_path).
InstrumentalProbes == {"drums.mp3", "bass.mp3"}

ShowInstrumental(r) ==
  ShowStem(r, "instrumental", "drums", InstrumentalProbes, "drums.mp3",
           "Download Instrumental (Drums)", "drums_")

ShowDrums(r) ==
  ShowStem(r, "drums", "bass", {"drums.mp3"}, "drums.mp3", "Download Drums", "drums_")

ShowBass(r) ==
  ShowStem(r, "bass", "other", {"bass.mp3"}, "bass.mp3", "Download Bass", "bass_")

ShowOther(r) ==
  ShowStem(r, "other", "exit_with", {"other.mp3"}, "other.mp3", "Download Other", "other_")

\* The with statement is left: the temporary directory is removed.
ExitWith(r) ==
  /\ session[r].pc = "exit_with"
  /\ LET d == session[r].temp_dir
     IN  /\ Access(r, Under(d))
         /\ dirs' = RmDirs(dirs, d)
         /\ files' = RmFiles(files, d)
  /\ Set(r, [session[r] EXCEPT !.pc = IF session[r].exc = NoExc THEN "done" ELSE "except"])
  /\ UNCHANGED <<demucs_installed, invoked>>

\* except FileNotFoundError / except Exception as e.
Except(r) ==
  /\ session[r].pc = "except"
  /\ IF session[r].exc.type = "FileNotFoundError"
     THEN Set(r, [session[r] EXCEPT !.pc = "done", !.messages = Append(@, Error(NotInstalledMessage))])
     ELSE Set(r, [session[r] EXCEPT !.pc = "done",
                    !.messages = Append(@, Error(ExceptionMessage(session[r].exc)))])
  /\ Access(r, {})
  /\ UNCHANGED <<dirs, files, demucs_installed, invoked>>

Step(r, names, outsets) ==
  \/ \E name \in names, m \in ModelOptions : Click(r, name, m)
  \/ SaveUpload(r)
  \/ RunDemucs(r)
  \/ \E outs \in outsets, code \in ReturnCodes, stderr \in StderrTexts :
       DemucsExit(r, outs, code, stderr)
  \/ CheckResult(r)
  \/ ShowVocals(r)
  \/ ShowInstrumental(r)
  \/ ShowDrums(r)
  \/ ShowBass(r)
  \/ ShowOther(r)
  \/ ExitWith(r)
  \/ Except(r)

\* One request on its own, with every upload name and engine output.
Next == \E r \in Solo : Step(r, UploadNames, OutputSets)

Spec == Init /\ [][Next]_vars

\* Requests of all sessions running at the same time.
NextConc == \E r \in Sessions : Step(r, ConcUploadNames, ConcOutputSets)

SpecConc == Init /\ [][NextConc]_vars

----------------------------------------------------------------------------
\* Vocabulary of the properties.

Catalog == {"htdemucs", "mdx_extra", "mdx_q"}

Roles ==
  [l \in {"Download Vocals", "Download Instrumental (Drums)", "Download Drums",
          "Download Bass", "Download Other"} |->
     CASE l = "Download Vocals" -> "Vocals"
       [] l = "Download Instrumental (Drums)" -> "Instrumental"
       [] l = "Download Drums" -> "Drums"
       [] l = "Download Bass" -> "Bass"
       [] OTHER -> "Other"]

\* The tracks handed to the caller: role and bytes of every download.
Tracks(r) ==
  {[role |-> Roles[session[r].downloads[i].label], data |-> session[r].downloads[i].data] :
     i \in 1..Len(session[r].downloads)}

Reported(r, m) == \E i \in 1..Len(session[r].messages) : session[r].messages[i] = m

ReportedLevel(r, level) ==
  \E i \in 1..Len(session[r].messages) : session[r].messages[i].level = level

Contains(text, piece) == \E i \in 1..Len(text) : text[i] = piece

Finished(r) == session[r].result # <<>>

ExitedZero(r) == Finished(r) /\ session[r].result[1].returncode = 0

\* The letters of a file name.
Spelling(n) ==
  CASE n = "vocals.mp3" -> <<"v", "o", "c", "a", "l", "s", ".", "m", "p", "3">>
    [] n = "Vocals.mp3" -> <<"V", "o", "c", "a", "l", "s", ".", "m", "p", "3">>
    [] n = "no_vocals.mp3" -> <<"n", "o", "_", "v", "o", "c", "a", "l", "s", ".", "m", "p", "3">>
    [] n = "drums.mp3" -> <<"d", "r", "u", "m", "s", ".", "m", "p", "3">>
    [] n = "bass.mp3" -> <<"b", "a", "s", "s", ".", "m", "p", "3">>
    [] n = "other.mp3" -> <<"o", "t", "h", "e", "r", ".", "m", "p", "3">>

Lower(c) == IF c = "V" THEN "v" ELSE c

LowerAll(w) == [i \in 1..Len(w) |-> Lower(w[i])]

HasVocalsToken(n) ==
  LET w == LowerAll(Spelling(n))
  IN  \E i \in 1..Len(w) :
        i + 5 <= Len(w) /\ SubSeq(w, i, i + 5) = <<"v", "o", "c", "a", "l", "s">>

Live(r) == session[r].pc \notin {"idle", "except", "done"}

----------------------------------------------------------------------------
\* C1: a request creates exactly one temporary directory, and once the request
\* has left the with statement (on any path) nothing of that directory exists.
C1_TempDirScoped ==
  \A r \in Solo :
    /\ Len(session[r].created) = IF session[r].pc = "idle" THEN 0 ELSE 1
    /\ session[r].pc \in {"except", "done"} => Under(session[r].created[1]) = {}

\* A request ended by an exception while reading the engine's outputs.
C1_Witness ==
  \E r \in Solo :
    /\ session[r].pc = "done"
    /\ session[r].exc.type = "PermissionError"
    /\ session[r].engine_wrote # {}
    /\ Under(session[r].created[1]) = {}

\* C2: a request reports exactly one outcome, never a success and an error.
C2_OneOutcome ==
  \A r \in Solo :
    /\ ~(ReportedLevel(r, "success") /\ ReportedLevel(r, "error"))
    /\ session[r].pc = "done" => Len(session[r].messages) = 1

\* C3: after a non-zero exit status the only report is the engine failure
\* carrying the captured stderr; nothing is scanned and no track is returned.
C3_EngineFailure ==
  \A r \in Solo :
    (Finished(r) /\ session[r].result[1].returncode # 0 /\ session[r].pc # "check") =>
      /\ Len(session[r].messages) = 1
      /\ session[r].messages[1].level = "error"
      /\ session[r].messages[1].text[1] = "Demucs processing failed: "
      /\ Contains(session[r].messages[1].text, session[r].result[1].stderr)
      /\ ~session[r].scanned
      /\ session[r].separated_dir = <<>>
      /\ Tracks(r) = {}

C3_Witness ==
  \E r \in Solo :
    /\ session[r].pc = "done"
    /\ Finished(r)
    /\ session[r].result[1] = [returncode |-> 1, stderr |-> "model load failed"]
    /\ session[r].engine_wrote # {}

\* C4: exit status 0 with no output file ends in the output-not-found error
\* and no track.
C4_NoOutputIsOutputNotFound ==
  \A r \in Solo :
    (session[r].pc = "done" /\ ExitedZero(r) /\ session[r].engine_wrote = {}) =>
      /\ Reported(r, Error(NotFoundMessage))
      /\ Tracks(r) = {}

C6_VocalsAndOther ==
  \A r \in Solo :
    (session[r].pc = "done" /\ session[r].exc = NoExc /\ ExitedZero(r)) =>
      \A v, o \in StemNames :
        (/\ session[r].engine_wrote =
              {Join(EngineFolder(session[r].temp_dir, session[r].model), <<n>>) : n \in {v, o}}
         /\ HasVocalsToken(v) /\ ~HasVocalsToken(o)) =>
          /\ [role |-> "Vocals", data |-> EngineData(r, v)] \in Tracks(r)
          /\ \E role \in {"Instrumental", "Drums", "Bass", "Other"} :
               [role |-> role, data |-> EngineData(r, o)] \in Tracks(r)

\* C7: "Demucs is not installed" is reported exactly when the engine executable
\* could not be located at its invocation.
C7_NotInstalledIffEngineMissing ==
  \A r \in Solo :
    session[r].pc = "done" =>
      (Reported(r, Error(NotInstalledMessage)) <=> session[r].spawn_failed)

C10_FolderWrittenByEngine ==
  \A r \in Solo :
    /\ session[r].separated_dir # <<>> =>
         \E p \in session[r].engine_wrote : Parent(p) = session[r].separated_dir[1]
    /\ [role |-> "Vocals", data |-> UploadData(r)] \notin Tracks(r)

====
